---- MODULE Spec2Model ----
(***************************************************************************)
(* The AQI dashboard of app.py as a state machine.                         *)
(*                                                                         *)
(* One Streamlit process: the module-level secret GEMINI_API_KEY, the      *)
(* st.cache_data store of load_data, and the script, which Streamlit runs  *)
(* from top to bottom on every user interaction (Rerun).  A run that       *)
(* reaches a clicked "Get Recommendation" button calls                     *)
(* get_ai_recommendation, whose POSTs and sleeps are steps of their own    *)
(* because the endpoint's answer to each POST is an input.                 *)
(*                                                                         *)
(* Text is a sequence of one-character strings wherever the code takes it  *)
(* apart (str.split, str.strip); messages the code only passes on are      *)
(* TLA+ strings.  time.sleep(n) is recorded with the n it was asked for;   *)
(* it suspends the thread for at least that long.                          *)
(***************************************************************************)
EXTENDS Integers, Sequences, FiniteSets, TLC

VARIABLES
    GEMINI_API_KEY, \* app.py:12, "None" stands for Python's None
    cache,          \* st.cache_data store of load_data: <<>> or <<entry>> (value, notice)
    gets,           \* HTTP GETs of the dataset issued so far in this process
    loadLog,        \* how each run of load_data's body ended: "" or the exception raised
    load,           \* what the last load_data call did (how, GET response, exception, notice)
    df,             \* module-level df of the last script run (NoDf: never bound)
    page,           \* st.radio value of the last run
    selection,      \* st.selectbox value of the last run ("" when none was drawn)
    screen,         \* elements the last run rendered, in order
    status,         \* "none" | "running" | "completed" | the unhandled exception of the run
    pollutants,     \* value_counts() table of the last run (rows Pollutant, Count)
    prompt,         \* prompt built by the last run
    pc,             \* "idle" (no script running) | "post" | "sleep" (inside get_ai_recommendation)
    retries,        \* local `retries` of get_ai_recommendation
    trace,          \* POSTs and sleeps of the current/last invocation, in order
    response,       \* the endpoint's answer to the last POST
    result          \* return value of the last invocation (NoResult: none yet)

vars == <<GEMINI_API_KEY, cache, gets, loadLog, load, df, page, selection, screen,
          status, pollutants, prompt, pc, retries, trace, response, result>>

(***************************************************************************)
(* Bounds of the model.                                                    *)
(***************************************************************************)
\* GETs of the dataset one behaviour may issue (caps the counter `gets`).
MaxGets == 3
\* Rows of the tables the view specification starts from.
MaxRows == 3

(***************************************************************************)
(* get_ai_recommendation: strings it returns.                              *)
(***************************************************************************)
NoResult == "<no result>"

MSG_NO_KEY == "API key not set. Please configure your Gemini API key."

MSG_NOT_GENERATED == "Sorry, the recommendation could not be generated. Please try again."

MSG_FAILED == "Sorry, I couldn't generate a recommendation at this time. Please try again later."

\* f"Sorry, an error occurred while generating the recommendation: {e}", for
\* the exceptions e the model raises (str(KeyError('text')) is 'text' in quotes).
MsgError(e) ==
    CASE e = "ConnectionError" ->
           "Sorry, an error occurred while generating the recommendation: connection failed"
      [] e = "JSONDecodeError" ->
           "Sorry, an error occurred while generating the recommendation: Expecting value"
      [] e = "KeyError" ->
           "Sorry, an error occurred while generating the recommendation: 'text'"
      [] e = "AttributeError" ->
           "Sorry, an error occurred while generating the recommendation: no attribute 'get'"

ErrorStrings == {MsgError(e) : e \in {"ConnectionError", "JSONDecodeError", "KeyError",
                                       "AttributeError"}}

\* Model output of a well-formed answer.
AdviceText == "**Summary** use a HEPA filter"

(***************************************************************************)
(* JSON values, as response.json() hands them to the code.                 *)
(***************************************************************************)
JNull == [t |-> "null"]

JStr(s) == [t |-> "str", s |-> s]

JList(items) == [t |-> "list", items |-> items]

JDict(f) == [t |-> "dict", f |-> f]

\* Python truth value of a JSON value (None, "", [] and {} are false).
Truthy(j) ==
    CASE j.t = "null" -> FALSE
      [] j.t = "str"  -> j.s # ""
      [] j.t = "list" -> Len(j.items) > 0
      [] j.t = "dict" -> DOMAIN j.f # {}

\* d.get(k) on a dict d.
DictGet(d, k) == IF k \in DOMAIN d.f THEN d.f[k] ELSE JNull

\* Response bodies the endpoint may send with a status line.
Bodies == {"ok", "no_candidates", "empty_candidates", "no_content", "no_parts",
           "empty_parts", "no_text", "candidate_not_object", "not_json"}

WithParts(parts) ==
    JDict([candidates |-> JList(<<JDict([content |-> JDict([parts |-> parts,
                                                           role |-> JStr("model")])])>>)])

\* response.json() of each body that is JSON.
JsonOf(body) ==
    CASE body = "ok" -> WithParts(JList(<<JDict([text |-> JStr(AdviceText)])>>))
      [] body = "no_candidates" -> JDict([promptFeedback |-> JStr("BLOCKED")])
      [] body = "empty_candidates" -> JDict([candidates |-> JList(<<>>)])
      [] body = "no_content" ->
           JDict([candidates |-> JList(<<JDict([finishReason |-> JStr("SAFETY")])>>)])
      [] body = "no_parts" ->
           JDict([candidates |-> JList(<<JDict([content |-> JDict([role |-> JStr("model")])])>>)])
      [] body = "empty_parts" -> WithParts(JList(<<>>))
      [] body = "no_text" -> WithParts(JList(<<JDict([thought |-> JStr("x")])>>))
      [] body = "candidate_not_object" -> JDict([candidates |-> JList(<<JStr("x")>>)])

IsJson(body) == body # "not_json"

(***************************************************************************)
(* get_ai_recommendation, lines 29-34: what one HTTP 200 answer makes the  *)
(* function return.  [exc] is the exception raised inside the try block    *)
(* ("" when none), [value] the value of the return statement reached.      *)
(***************************************************************************)
Returned(v) == [exc |-> "", value |-> v]

Raised(e) == [exc |-> e, value |-> ""]

\* line 32: result["candidates"][0]["content"]["parts"][0]["text"]
ExtractText(parts) ==
    LET part == parts.items[1]
    IN  IF "text" \in DOMAIN part.f THEN Returned(part.f["text"].s)
        ELSE Raised("KeyError")

\* line 31, read left to right as Python's `and` evaluates it.
OnStatus200(body) ==
    IF ~IsJson(body) THEN Raised("JSONDecodeError")
    ELSE
    LET res == JsonOf(body)
        candidates == DictGet(res, "candidates")
    IN  IF ~Truthy(candidates) THEN Returned(MSG_NOT_GENERATED)
        ELSE
        LET first == candidates.items[1]
        IN  IF first.t # "dict" THEN Raised("AttributeError")
            ELSE
            LET content == DictGet(first, "content")
            IN  IF ~Truthy(content) THEN Returned(MSG_NOT_GENERATED)
                ELSE
                LET parts == DictGet(content, "parts")
                IN  IF ~Truthy(parts) THEN Returned(MSG_NOT_GENERATED)
                    ELSE ExtractText(parts)

\* Variant: the test `GEMINI_API_KEY is None`, which lets an empty key pass.
KeyMissing_NoneOnly(key) == key = "None"

\* line 17: `not GEMINI_API_KEY`
KeyMissing(key) == key = "None" \/ key = ""

\* Variants: a loop that allows a fourth attempt, and one that stops at two.
MaxAttempts_Four == 3 + 1

MaxAttempts_Two == 3 - 1

\* line 27: while retries < 3
MaxAttempts == 3

\* Variant: a linear backoff, time.sleep(2 * retries).
BackoffSeconds_Linear(n) == 2 * n

\* line 36: time.sleep(2 ** retries)
BackoffSeconds(n) == 2 ^ n

(***************************************************************************)
(* Text the code takes apart: sequences of one-character strings.          *)
(***************************************************************************)
Range(f) == {f[i] : i \in DOMAIN f}

Whitespace == {" ", "\t"}

RECURSIVE SplitFrom(_, _, _)
\* The pieces of s from position i on, `cur` being the piece read so far.
SplitFrom(s, i, cur) ==
    IF i > Len(s) THEN <<cur>>
    ELSE IF s[i] = "," THEN <<cur>> \o SplitFrom(s, i + 1, <<>>)
    ELSE SplitFrom(s, i + 1, Append(cur, s[i]))

\* str.split(','): always at least one piece, "" gives [""].
SplitComma(s) == SplitFrom(s, 1, <<>>)

RECURSIVE LStrip(_)
LStrip(s) == IF s # <<>> /\ Head(s) \in Whitespace THEN LStrip(Tail(s)) ELSE s

RECURSIVE RStrip(_)
RStrip(s) ==
    IF s # <<>> /\ s[Len(s)] \in Whitespace THEN RStrip(SubSeq(s, 1, Len(s) - 1)) ELSE s

\* Variant: str.lstrip() in place of str.strip().
Strip_LeftOnly(s) == LStrip(s)

\* str.strip()
Strip(s) == RStrip(LStrip(s))

RECURSIVE JoinFrom(_, _)
JoinFrom(list, i) ==
    IF i > Len(list) THEN <<>>
    ELSE IF i = Len(list) THEN list[i]
    ELSE list[i] \o <<",", " ">> \o JoinFrom(list, i + 1)

\* ', '.join(list)
JoinCommaSpace(list) == JoinFrom(list, 1)

RECURSIVE Flatten(_)
\* explode(): the pieces of every row, in row order.
Flatten(lists) == IF lists = <<>> THEN <<>> ELSE Head(lists) \o Flatten(Tail(lists))

RECURSIVE SumSeq(_)
SumSeq(ns) == IF ns = <<>> THEN 0 ELSE Head(ns) + SumSeq(Tail(ns))

\* f"{total / n:.2f}" in hundredths, rounding the quotient half to even (n > 0).
Format2(total, n) ==
    LET q == (100 * total) \div n
        r == (100 * total) % n
    IN  IF 2 * r > n \/ (2 * r = n /\ q % 2 = 1) THEN q + 1 ELSE q

(***************************************************************************)
(* The dataset: values of cells, CSV texts the source may serve, and the   *)
(* tables pandas makes of them.  A table is its column names in order and  *)
(* its rows, each a function from column name to cell.                     *)
(***************************************************************************)
\* A missing prominent_pollutants cell (pandas NaN); no text is equal to it.
NaN == <<"<NaN>">>

PM25 == <<"P", "M", "2", ".", "5">>

PM10 == <<"P", "M", "1", "0">>

O3 == <<"O", "3">>

CO == <<"C", "O">>

SO2 == <<"S", "O", "2">>

\* pd.DataFrame()
EmptyFrame == [columns |-> <<>>, rows |-> <<>>]

\* df of a run that never bound it.
NoDf == [columns |-> <<"<unbound>">>, rows |-> <<>>]

CsvHeader == <<"Date", "State", "Area", "AQI_Value", "Prominent_Pollutants", "Note", "Unit">>

CsvRowA == <<<<1, 1, 2023>>, "Delhi", "Anand Vihar", 301, PM25 \o <<",", " ">> \o PM10,
             "note", "ug/m3">>

CsvRowB == <<<<15, 2, 2023>>, "Kerala", "Kochi", 46, NaN, "note", "ug/m3">>

CsvRowC == <<<<28, 2, 2023>>, "Delhi", "Okhla", 250, PM25, "note", "ug/m3">>

\* 31 February: the text has the shape DD-MM-YYYY and names no day.
CsvRowBadDay == <<<<31, 2, 2023>>, "Delhi", "Okhla", 250, PM25, "note", "ug/m3">>

\* 2023-02-15: year first.
CsvRowIso == <<<<2023, 2, 15>>, "Delhi", "Okhla", 250, PM25, "note", "ug/m3">>

\* Texts a GET of DATA_URL may return ("" is an empty body).
CsvTexts == {"good", "duplicates", "header_only", "no_note", "no_unit", "bad_day",
             "iso_date", ""}

\* pd.read_csv(io.StringIO(text)) of each text that has a header line.
ReadCsv(text) ==
    CASE text = "good" -> [header |-> CsvHeader, rows |-> <<CsvRowA, CsvRowB, CsvRowC>>]
      [] text = "duplicates" ->
           [header |-> CsvHeader, rows |-> <<CsvRowA, CsvRowB, CsvRowA, CsvRowB>>]
      [] text = "header_only" -> [header |-> CsvHeader, rows |-> <<>>]
      [] text = "no_note" ->
           [header |-> SubSeq(CsvHeader, 1, 5) \o <<"Unit">>,
            rows |-> <<SubSeq(CsvRowA, 1, 5) \o <<"ug/m3">>>>]
      [] text = "no_unit" ->
           [header |-> SubSeq(CsvHeader, 1, 6), rows |-> <<SubSeq(CsvRowA, 1, 6)>>]
      [] text = "bad_day" -> [header |-> CsvHeader, rows |-> <<CsvRowA, CsvRowBadDay>>]
      [] text = "iso_date" -> [header |-> CsvHeader, rows |-> <<CsvRowIso, CsvRowA>>]

\* col.lower() of the header names the source uses.
Lower(col) ==
    CASE col = "Date" -> "date"
      [] col = "State" -> "state"
      [] col = "Area" -> "area"
      [] col = "AQI_Value" -> "aqi_value"
      [] col = "Prominent_Pollutants" -> "prominent_pollutants"
      [] col = "Note" -> "note"
      [] col = "Unit" -> "unit"
      [] OTHER -> col

IsLeap(y) == (y % 4 = 0 /\ y % 100 # 0) \/ y % 400 = 0

DaysInMonth(m, y) ==
    IF m = 2 THEN (IF IsLeap(y) THEN 29 ELSE 28)
    ELSE IF m \in {4, 6, 9, 11} THEN 30 ELSE 31

\* Whether pd.to_datetime(..., format='%d-%m-%Y') accepts the text whose
\* three numbers are, in the order written, t[1]-t[2]-t[3].
DateParses(t) == t[2] \in 1..12 /\ t[1] \in 1..DaysInMonth(t[2], t[3])

ToDatetime(t) == [year |-> t[3], month |-> t[2], day |-> t[1]]

RECURSIVE DropDuplicates(_)
\* df.drop_duplicates(): the first of equal rows stays, order kept.
DropDuplicates(rows) ==
    IF rows = <<>> THEN <<>>
    ELSE LET init == DropDuplicates(SubSeq(rows, 1, Len(rows) - 1))
             last == rows[Len(rows)]
         IN  IF \E i \in 1..Len(init) : init[i] = last THEN init ELSE Append(init, last)

SelectSeq2(s, Keep(_)) == SelectSeq(s, Keep)

\* df.drop(columns=...) applied to the column list.
WithoutColumns(cols, dropped) == SelectSeq2(cols, LAMBDA c : c \notin dropped)

(***************************************************************************)
(* load_data, lines 56-78, for one answer to the GET.  [exc] is the        *)
(* exception that leaves load_data ("" when it returns), [value] the table *)
(* returned, [notice] whether st.error was called.                         *)
(***************************************************************************)
\* requests.get raised (a subclass of RequestException): no status, no text.
TransportErrors == {"ConnectionError", "Timeout"}

Statuses == {200, 304, 404, 503}

\* response.raise_for_status(): HTTPError for a 4xx or 5xx status.
RaisesForStatus(code) == code >= 400 /\ code < 600

LoadReturns(frame, notice) == [exc |-> "", value |-> frame, notice |-> notice]

LoadRaises(e) == [exc |-> e, value |-> NoDf, notice |-> FALSE]

\* lines 61-75: parse and clean the text of a response that passed the status check.
CleanCsv(text) ==
    IF text = "" THEN LoadRaises("EmptyDataError")
    ELSE
    LET raw == ReadCsv(text)
        cols == [i \in 1..Len(raw.header) |-> Lower(raw.header[i])]
        kept == WithoutColumns(cols, {"note", "unit"})
        Cell(r, c) == raw.rows[r][CHOOSE i \in 1..Len(cols) : cols[i] = c]
    IN  IF ~({"note", "unit"} \subseteq Range(cols)) THEN LoadRaises("KeyError")
        ELSE IF "date" \notin Range(cols) THEN LoadRaises("KeyError")
        ELSE IF \E r \in 1..Len(raw.rows) : ~DateParses(Cell(r, "date"))
             THEN LoadRaises("ValueError")
        ELSE LoadReturns(
               [columns |-> kept,
                rows |-> DropDuplicates(
                           [r \in 1..Len(raw.rows) |->
                              [c \in Range(kept) |->
                                 IF c = "date" THEN ToDatetime(Cell(r, c)) ELSE Cell(r, c)]])],
               FALSE)

\* Variant: `except Exception`, which also swallows what the parsing raises.
LoadData_CatchAll(resp) ==
    IF resp.exc # "" \/ RaisesForStatus(resp.status) THEN LoadReturns(EmptyFrame, TRUE)
    ELSE IF CleanCsv(resp.text).exc # "" THEN LoadReturns(EmptyFrame, TRUE)
    ELSE CleanCsv(resp.text)

LoadData(resp) ==
    IF resp.exc # "" THEN LoadReturns(EmptyFrame, TRUE)
    ELSE IF RaisesForStatus(resp.status) THEN LoadReturns(EmptyFrame, TRUE)
    ELSE CleanCsv(resp.text)

(***************************************************************************)
(* st.cache_data around load_data (line 47).  A call that returns stores   *)
(* its value, and the elements it drew, under the function's (empty)       *)
(* argument list; a call that raises stores nothing.  A later call finds   *)
(* the entry, replays the elements and returns the value: load_data's body *)
(* does not run.                                                           *)
(***************************************************************************)
CacheHit(store) == store # <<>>

\* Variant: a cache that keeps no value returned together with an error notice.
CacheAfter_SkipErrors(store, out) ==
    IF CacheHit(store) \/ out.exc # "" \/ out.notice THEN store
    ELSE <<[value |-> out.value, notice |-> out.notice]>>

CacheAfter(store, out) ==
    IF CacheHit(store) \/ out.exc # "" THEN store
    ELSE <<[value |-> out.value, notice |-> out.notice]>>

\* What load_data() hands the script, given the store and the answer a GET would get.
CachedLoad(store, resp) ==
    IF CacheHit(store) THEN LoadReturns(store[1].value, store[1].notice)
    ELSE LoadData(resp)

(***************************************************************************)
(* The pages.  A page's result: the elements it drew, how the run ended    *)
(* ("completed" or the exception that stopped it), the value_counts table, *)
(* the prompt, and whether get_ai_recommendation is called.                *)
(***************************************************************************)
Element(el, body) == [el |-> el, body |-> body]

NoPrompt == [where |-> "", avg |-> 0, top_pollutants_list |-> <<>>,
             top_pollutants_str |-> <<>>]

Pages == {"India Overview", "Statewise AQI", "Areawise AQI"}

HasColumn(d, c) == c \in Range(d.columns)

PageResult(els, how, counts, p, invoke) ==
    [screen |-> els, status |-> how, pollutants |-> counts, prompt |-> p, invoke |-> invoke]

PageRaises(els, e) == PageResult(Append(els, Element("exception", e)), e, <<>>, NoPrompt, FALSE)

\* lines 84-106.  Line 87 reads df['aqi_value'] first: a table without that
\* column stops the run there with KeyError.  (Every table CleanCsv returns
\* for the texts above has all five columns.)
IndiaOverview(d) ==
    LET head == <<Element("header", "Overall India Air Quality Index (AQI)")>>
    IN  IF ~HasColumn(d, "aqi_value") THEN PageRaises(head, "KeyError")
        ELSE PageResult(
               head \o <<Element("metric", "Average AQI(2022-2025)"),
                         Element("plotly_chart", "Monthly Average AQI in India"),
                         Element("plotly_chart", "Top 10 Most Polluted States in India"),
                         Element("plotly_chart", "Top 10 Most Polluted Areas in India")>>,
               "completed", <<>>, NoPrompt, FALSE)

\* lines 113 and 172: the options of the selectbox.
Options(d, col) == IF HasColumn(d, col) THEN {d.rows[i][col] : i \in DOMAIN d.rows} ELSE {}

\* lines 116 and 175: df[df[col] == pick]
RowsOf(d, col, pick) == SelectSeq2(d.rows, LAMBDA r : r[col] = pick)

\* lines 128, 188: dropna(subset=['prominent_pollutants'])
DropNa(rows) == SelectSeq2(rows, LAMBDA r : r["prominent_pollutants"] # NaN)

\* lines 129-131, 189-191: str.split(',') and explode
Explode(rows) == Flatten([i \in 1..Len(rows) |-> SplitComma(rows[i]["prominent_pollutants"])])

\* lines 132, 192: str.strip() of every piece
StripAll(pieces) == [i \in 1..Len(pieces) |-> Strip(pieces[i])]

\* lines 128-132, 188-192: the column value_counts() is taken of.
PollutantTokens(rows) == StripAll(Explode(DropNa(rows)))

CountOf(t, tokens) == Cardinality({i \in 1..Len(tokens) : tokens[i] = t})

RECURSIVE DescendingOrders(_, _)
\* The orders of the distinct values `left` in which no count rises.
DescendingOrders(left, tokens) ==
    IF left = {} THEN {<<>>}
    ELSE LET top == {t \in left : \A u \in left : CountOf(u, tokens) <= CountOf(t, tokens)}
         IN  UNION {{<<t>> \o rest : rest \in DescendingOrders(left \ {t}, tokens)} : t \in top}

\* lines 133, 193: the index orders value_counts() may produce.  Counts fall
\* along the index; the order among equal counts is the sort routine's.
ValueCountOrders(tokens) == DescendingOrders(Range(tokens), tokens)

\* value_counts() with its index in the given order.
ValueCounts(tokens, order) ==
    [i \in 1..Len(order) |-> [Pollutant |-> order[i], Count |-> CountOf(order[i], tokens)]]

\* lines 148, 209: head() keeps the first 5 rows.
HeadN == 5

TopPollutants(counts) ==
    [i \in 1..(IF Len(counts) < HeadN THEN Len(counts) ELSE HeadN) |-> counts[i].Pollutant]

\* lines 147, 176: mean of aqi_value over the rows, as the prompt prints it.
MeanAqi(rows) == Format2(SumSeq([i \in 1..Len(rows) |-> rows[i]["aqi_value"]]), Len(rows))

\* lines 151-156, 212-217
BuildPrompt(rows, pick, counts) ==
    [where |-> pick, avg |-> MeanAqi(rows), top_pollutants_list |-> TopPollutants(counts),
     top_pollutants_str |-> JoinCommaSpace(TopPollutants(counts))]

\* The orders the page's value_counts() may come in (<<>> alone when the page
\* does not get that far).
OrdersFor(d, pg, pick) ==
    LET col == IF pg = "Statewise AQI" THEN "state" ELSE "area"
    IN  IF pg = "India Overview" \/ ~HasColumn(d, col) THEN {<<>>}
        ELSE ValueCountOrders(PollutantTokens(RowsOf(d, col, pick)))

\* lines 110-165 and 169-227, which differ in the column and the wording.
\* Lines 113 and 172 read df[col] first: KeyError on a table without it.
DrillDown(col, noun, title, d, pick, clicked, order) ==
    LET head == <<Element("header", title)>>
    IN  IF ~HasColumn(d, col) THEN PageRaises(head, "KeyError")
        ELSE
        LET rows == RowsOf(d, col, pick)
            found == <<Element("subheader", "AQI Over Time"), Element("plotly_chart", pick),
                       Element("subheader", "Prominent Pollutants")>>
            counts == ValueCounts(PollutantTokens(rows), order)
        IN  IF rows = <<>> THEN
               PageResult(Append(head, Element("write", "No data available")),
                          "completed", <<>>, NoPrompt, FALSE)
            ELSE IF counts = <<>> THEN
               PageResult(head \o found \o <<Element("write", "No pollutant data available")>>,
                          "completed", counts, NoPrompt, FALSE)
            ELSE
               PageResult(head \o found
                            \o <<Element("altair_chart", noun),
                                 Element("subheader", "AI-Powered Air Purifier Recommendation"),
                                 Element("button", pick)>>
                            \o (IF clicked THEN <<Element("spinner", pick)>> ELSE <<>>),
                          "completed", counts, BuildPrompt(rows, pick, counts), clicked)

\* lines 108-165
StatewiseView(d, pick, clicked, order) ==
    DrillDown("state", "state", "Statewise AQI Data", d, pick, clicked, order)

\* lines 167-227
AreawiseView(d, pick, clicked, order) ==
    DrillDown("area", "area", "Areawise AQI Data", d, pick, clicked, order)

\* lines 82-227: the page the radio selects.
RenderPage(pg, d, pick, clicked, order) ==
    CASE pg = "India Overview" -> IndiaOverview(d)
      [] pg = "Statewise AQI" -> StatewiseView(d, pick, clicked, order)
      [] pg = "Areawise AQI" -> AreawiseView(d, pick, clicked, order)

\* What the selectbox of the page can hold: one of its options, None ("")
\* when it has none or is not drawn.
PickAllowed(pg, d, pick) ==
    LET opts == IF pg = "Statewise AQI" THEN Options(d, "state")
                ELSE IF pg = "Areawise AQI" THEN Options(d, "area") ELSE {}
    IN  IF opts = {} THEN pick = "" ELSE pick \in opts

\* The button of the last run: st.button answers True only in the run its
\* click starts, on the page and selection that drew it.
ButtonShown(els, pick) == \E i \in 1..Len(els) : els[i] = Element("button", pick)

(***************************************************************************)
(* State of the process before the first script run.                       *)
(***************************************************************************)
NoResponse == [exc |-> "", status |-> 0, text |-> ""]

NoLoad == [how |-> "none", resp |-> NoResponse, exc |-> "", notice |-> FALSE]

ApiKeys == {"None", "", "k3y"}

Init ==
    /\ GEMINI_API_KEY \in ApiKeys
    /\ cache = <<>>
    /\ gets = 0
    /\ loadLog = <<>>
    /\ load = NoLoad
    /\ df = NoDf
    /\ page = "India Overview"
    /\ selection = ""
    /\ screen = <<>>
    /\ status = "none"
    /\ pollutants = <<>>
    /\ prompt = NoPrompt
    /\ pc = "idle"
    /\ retries = 0
    /\ trace = <<>>
    /\ response = NoResponse
    /\ result = NoResult

(***************************************************************************)
(* One run of the script (lines 42-227), up to its end or to the first     *)
(* POST of get_ai_recommendation.  Inputs: the page and selection the      *)
(* widgets hold, whether this run was started by a click on the button,    *)
(* and the answer the dataset's server gives if it is asked.               *)
(***************************************************************************)
GetResponses ==
    {[exc |-> e, status |-> 0, text |-> ""] : e \in TransportErrors}
      \cup {[exc |-> "", status |-> c, text |-> ""] : c \in Statuses \ {200}}
      \cup {[exc |-> "", status |-> 200, text |-> t] : t \in CsvTexts}

Picks == {"", "Delhi", "Kerala", "Anand Vihar", "Okhla", "Kochi"}

Rerun(pg, pick, clicked, resp) ==
    /\ pc = "idle"
    /\ status = "none" => pg = "India Overview"
    /\ clicked => (pg = page /\ pick = selection /\ status = "completed"
                   /\ ButtonShown(screen, pick))
    /\ IF CacheHit(cache) THEN resp = NoResponse ELSE resp \in GetResponses /\ gets < MaxGets
    /\ LET out == CachedLoad(cache, resp)
           top == <<Element("title", "AQI Analysis and Air Purifier Recommendation Dashboard")>>
                    \o (IF out.notice THEN <<Element("error", "Error loading data from URL")>>
                        ELSE <<>>)
       IN  /\ gets' = IF CacheHit(cache) THEN gets ELSE gets + 1
           /\ cache' = CacheAfter(cache, out)
           /\ loadLog' = IF CacheHit(cache) THEN loadLog ELSE Append(loadLog, out.exc)
           /\ load' = [how |-> IF CacheHit(cache) THEN "hit" ELSE "miss", resp |-> resp,
                       exc |-> out.exc, notice |-> out.notice]
           /\ df' = out.value
           /\ page' = pg
           /\ IF out.exc # "" THEN
                 \* line 80 raised: the run ends there
                 /\ pick = "" /\ ~clicked
                 /\ selection' = ""
                 /\ screen' = Append(top, Element("exception", out.exc))
                 /\ status' = out.exc
                 /\ pollutants' = <<>>
                 /\ prompt' = NoPrompt
                 /\ pc' = "idle" /\ retries' = 0 /\ trace' = <<>>
                 /\ response' = NoResponse /\ result' = NoResult
              ELSE
                 /\ PickAllowed(pg, out.value, pick)
                 /\ selection' = pick
                 /\ \E order \in OrdersFor(out.value, pg, pick) :
                      LET view == RenderPage(pg, out.value, pick, clicked, order)
                      IN  /\ pollutants' = view.pollutants
                          /\ prompt' = view.prompt
                          /\ retries' = 0 /\ trace' = <<>> /\ response' = NoResponse
                          /\ IF ~view.invoke THEN
                                /\ screen' = top \o view.screen
                                /\ status' = view.status
                                /\ pc' = "idle" /\ result' = NoResult
                             ELSE IF KeyMissing(GEMINI_API_KEY) THEN
                                \* lines 17-18, then line 161
                                /\ screen' = top \o view.screen
                                               \o <<Element("markdown", MSG_NO_KEY)>>
                                /\ status' = "completed"
                                /\ pc' = "idle" /\ result' = MSG_NO_KEY
                             ELSE
                                \* lines 19-27: inside the loop, before the first POST
                                /\ screen' = top \o view.screen
                                /\ status' = "running"
                                /\ pc' = "post" /\ result' = NoResult
    /\ UNCHANGED GEMINI_API_KEY

(***************************************************************************)
(* get_ai_recommendation, lines 27-39, one POST or one sleep at a time.    *)
(***************************************************************************)
\* Answers to a POST: an exception of requests.post, or a status with a body.
PostResponses ==
    {[exc |-> "ConnectionError", status |-> 0, text |-> ""]}
      \cup {[exc |-> "", status |-> c, text |-> ""] : c \in {429, 500}}
      \cup {[exc |-> "", status |-> 200, text |-> b] : b \in Bodies}

\* Variant: a try/except inside the loop, which retries a POST that raised.
AfterPost_RetryOnException(resp) ==
    IF resp.exc = "" /\ resp.status = 200 THEN
       LET got == OnStatus200(resp.text)
       IN  [do |-> "return",
            value |-> IF got.exc = "" THEN got.value ELSE MsgError(got.exc)]
    ELSE [do |-> "retry", value |-> ""]

\* What the function does with the answer to one POST: "return" with the
\* string, or "retry" (lines 35-36 follow).
AfterPost(resp) ==
    IF resp.exc # "" THEN [do |-> "return", value |-> MsgError(resp.exc)]
    ELSE IF resp.status = 200 THEN
       LET got == OnStatus200(resp.text)
       IN  [do |-> "return",
            value |-> IF got.exc = "" THEN got.value ELSE MsgError(got.exc)]
    ELSE [do |-> "retry", value |-> ""]

\* The return statement, and lines 161/222 that draw the string.
Return(value) ==
    /\ result' = value
    /\ pc' = "idle"
    /\ status' = "completed"
    /\ screen' = Append(screen, Element("markdown", value))

\* line 28 and what lines 29-35 do with the answer.
Post(resp) ==
    /\ pc = "post"
    /\ trace' = Append(trace, [ev |-> "POST", n |-> resp.status])
    /\ response' = resp
    /\ LET next == AfterPost(resp)
       IN  IF next.do = "return" THEN Return(next.value) /\ UNCHANGED retries
           ELSE /\ retries' = retries + 1
                /\ pc' = "sleep"
                /\ UNCHANGED <<result, status, screen>>
    /\ UNCHANGED <<GEMINI_API_KEY, cache, gets, loadLog, load, df, page, selection,
                   pollutants, prompt>>

\* line 36, then the loop test of line 27 and, when it fails, line 37.
Sleep ==
    /\ pc = "sleep"
    /\ trace' = Append(trace, [ev |-> "SLEEP", n |-> BackoffSeconds(retries)])
    /\ IF retries < MaxAttempts THEN pc' = "post" /\ UNCHANGED <<result, status, screen>>
       ELSE Return(MSG_FAILED)
    /\ UNCHANGED <<GEMINI_API_KEY, cache, gets, loadLog, load, df, page, selection,
                   pollutants, prompt, retries, response>>

UserActs == \E pg \in Pages, pick \in Picks, clicked \in BOOLEAN, resp \in GetResponses \cup {NoResponse} :
    Rerun(pg, pick, clicked, resp)

EndpointAnswers == \E resp \in PostResponses : Post(resp)

Next == UserActs \/ EndpointAnswers \/ Sleep

Spec == Init /\ [][Next]_vars

\* The endpoint answers every POST (or the request fails), and a sleep ends.
FairSpec == Spec /\ WF_vars(EndpointAnswers) /\ WF_vars(Sleep)

(***************************************************************************)
(* The views over every small table: the process after a first run whose   *)
(* GET returned a table of up to MaxRows rows, then a run of the Statewise *)
(* or the Areawise page.  The rows are distinct, as drop_duplicates leaves *)
(* them.                                                                   *)
(***************************************************************************)
Stations == {[state |-> "Delhi", area |-> "Anand Vihar", aqi_value |-> 301],
             [state |-> "Delhi", area |-> "Okhla", aqi_value |-> 250],
             [state |-> "Kerala", area |-> "Kochi", aqi_value |-> 46]}

\* prominent_pollutants cells: missing; one name; two names after ", "; and
\* " CO ,O3,CO,SO2<tab>,O3,CO, ", with blanks and a tab around its names, names
\* that repeat (so that few counts are equal) and a last piece that is blank.
Fields == {NaN,
           PM25,
           PM25 \o <<",", " ">> \o PM10,
           <<" ">> \o CO \o <<" ", ",">> \o O3 \o <<",">> \o CO \o <<",">> \o SO2
              \o <<"\t", ",">> \o O3 \o <<",">> \o CO \o <<",", " ">>}

TableRows == {[date |-> ToDatetime(<<1, 1, 2023>>), state |-> st.state, area |-> st.area,
               aqi_value |-> st.aqi_value, prominent_pollutants |-> f] :
                 st \in Stations, f \in Fields}

Tables ==
    {[columns |-> WithoutColumns([i \in 1..Len(CsvHeader) |-> Lower(CsvHeader[i])],
                                 {"note", "unit"}),
      rows |-> rows] :
        rows \in {r \in UNION {[1..n -> TableRows] : n \in 0..MaxRows} :
                    \A i, j \in DOMAIN r : i # j => r[i] # r[j]}}

InitViews ==
    /\ GEMINI_API_KEY = "k3y"
    /\ df \in Tables
    /\ cache = <<[value |-> df, notice |-> FALSE]>>
    /\ gets = 1
    /\ loadLog = <<"">>
    /\ load = [how |-> "miss", resp |-> [exc |-> "", status |-> 200, text |-> "table"],
               exc |-> "", notice |-> FALSE]
    /\ page = "India Overview"
    /\ selection = ""
    /\ screen = <<Element("title", "AQI Analysis and Air Purifier Recommendation Dashboard")>>
                  \o IndiaOverview(df).screen
    /\ status = "completed"
    /\ pollutants = <<>>
    /\ prompt = NoPrompt
    /\ pc = "idle"
    /\ retries = 0
    /\ trace = <<>>
    /\ response = NoResponse
    /\ result = NoResult

\* The run that follows the overview: the user turns to a drill-down page.
UserViews == \E pg \in Pages \ {"India Overview"}, pick \in Picks :
    page = "India Overview" /\ Rerun(pg, pick, FALSE, NoResponse)

SpecViews == InitViews /\ [][UserViews]_vars

(***************************************************************************)
(* Properties.  What an invocation of get_ai_recommendation did is read    *)
(* off its trace.                                                          *)
(***************************************************************************)
PostIndexes == {i \in DOMAIN trace : trace[i].ev = "POST"}

SleepIndexes == {i \in DOMAIN trace : trace[i].ev = "SLEEP"}

\* A POST answered with a status other than 200 (n = 0 records an exception).
FailedStatus(e) == e.ev = "POST" /\ e.n # 0 /\ e.n # 200

\* The k-th POST of the trace (k at most the number of POSTs).
NthPost(k) == CHOOSE i \in PostIndexes : Cardinality({j \in PostIndexes : j <= i}) = k

\* The invocation has returned to the script.
Called == trace # <<>> \/ result # NoResult

HasReturned == pc = "idle" /\ Called

SleptSeconds == SumSeq([i \in 1..Len(trace) |-> IF trace[i].ev = "SLEEP" THEN trace[i].n ELSE 0])

\* Some sleep of at least n seconds lies between trace positions a and b.
SleepBetween(a, b, n) == \E i \in SleepIndexes : a < i /\ i < b /\ trace[i].n >= n

\* C1: with a credential, three POSTs answered with a non-200 status are all
\* the POSTs there are (never a fourth), at least 2 s of sleep precede the
\* second and at least 4 s the third, and the invocation then returns the
\* terminal failure string.
C1_ThreeFailuresThenGiveUp ==
    /\ Cardinality(PostIndexes) <= 3
    /\ Cardinality(PostIndexes) >= 2 => SleepBetween(NthPost(1), NthPost(2), 2)
    /\ Cardinality(PostIndexes) >= 3 => SleepBetween(NthPost(2), NthPost(3), 4)
    /\ (Cardinality(PostIndexes) = 3 /\ \A i \in PostIndexes : FailedStatus(trace[i]))
         => /\ pc \in {"sleep", "idle"}
            /\ pc = "idle" => result = MSG_FAILED

C1_Witness ==
    /\ GEMINI_API_KEY = "k3y" /\ pc = "idle" /\ result = MSG_FAILED
    /\ Cardinality(PostIndexes) = 3 /\ \A i \in PostIndexes : FailedStatus(trace[i])

\* C2: with the credential None or empty, no invocation ever POSTs or sleeps,
\* and a run that reaches the call gets the configuration-error string.
C2_NoKeyNoRequest ==
    GEMINI_API_KEY \in {"None", ""} =>
        /\ trace = <<>> /\ pc = "idle"
        /\ result \in {NoResult, MSG_NO_KEY}
        /\ (\E i \in DOMAIN screen : screen[i].el = "spinner") => result = MSG_NO_KEY

C2_Witness ==
    /\ GEMINI_API_KEY = "" /\ result = MSG_NO_KEY /\ trace = <<>>
    /\ prompt.top_pollutants_list # <<>>

\* The answer lacks a field of {candidates:[{content:{parts:[{text}]}}]}.
MissingExpectedField(body) ==
    /\ IsJson(body)
    /\ LET top == JsonOf(body).f
       IN  \/ "candidates" \notin DOMAIN top
           \/ top["candidates"].items = <<>>
           \/ LET first == top["candidates"].items[1]
              IN  /\ first.t = "dict"
                  /\ \/ "content" \notin DOMAIN first.f
                     \/ "parts" \notin DOMAIN first.f["content"].f
                     \/ first.f["content"].f["parts"].items = <<>>
                     \/ "text" \notin DOMAIN first.f["content"].f["parts"].items[1].f

\* The last thing the invocation did was a POST answered 200 with `body`.
LastAnswer200 ==
    trace # <<>> /\ trace[Len(trace)].ev = "POST" /\ response.exc = ""
    /\ response.status = 200

\* C3 (as claimed): a 200 answer lacking any expected field ends the
\* invocation with the fixed "could not be generated" string, with no
\* further POST and no sleep.
C3_MissingFieldGivesFixedString ==
    (LastAnswer200 /\ MissingExpectedField(response.text))
        => pc = "idle" /\ result = MSG_NOT_GENERATED

\* C4 (as claimed): a POST that raised is retried while fewer than 3
\* attempts have been made.
C4_ExceptionIsRetried ==
    (trace # <<>> /\ trace[Len(trace)].ev = "POST" /\ response.exc # ""
       /\ Cardinality(PostIndexes) < 3)
        => pc # "idle"

\* C4 (amended): a POST that raised ends the invocation at once, whatever the
\* number of attempts made: it is the last event of the trace, and the
\* string describing the error is returned.
C4_ExceptionEndsInvocation ==
    \A i \in PostIndexes :
        trace[i].n = 0 =>
            /\ i = Len(trace)
            /\ response.exc # ""
            /\ pc = "idle"
            /\ result \in ErrorStrings
            /\ status = "completed"

C4_Witness ==
    /\ Cardinality(PostIndexes) = 2 /\ trace[Len(trace)].n = 0
    /\ trace[Len(trace)].ev = "POST" /\ pc = "idle"

(***************************************************************************)
(* Properties of load_data.  The kind of a load failure is read off the    *)
(* answer to the GET.                                                      *)
(***************************************************************************)
\* The last load_data call ran its body (it was not served from the cache).
LoadRan == load.how = "miss"

TransportFailure(resp) == resp.exc # ""

NonSuccessStatus(resp) == resp.exc = "" /\ (resp.status < 200 \/ resp.status >= 300)

ErrorStatus(resp) == resp.exc = "" /\ resp.status >= 400 /\ resp.status < 600

HasTable(resp) == resp.exc = "" /\ resp.status = 200 /\ resp.text \in CsvTexts \ {""}

LoweredHeader(resp) == {Lower(c) : c \in Range(ReadCsv(resp.text).header)}

\* The `note` or the `unit` column is missing.
SchemaMismatch(resp) ==
    HasTable(resp) /\ ("note" \notin LoweredHeader(resp) \/ "unit" \notin LoweredHeader(resp))

\* Some value of the date column (the first of the source) names no day DD-MM-YYYY.
UnparsableDate(resp) ==
    /\ HasTable(resp) /\ ~SchemaMismatch(resp)
    /\ \E r \in Range(ReadCsv(resp.text).rows) :
          ~(r[1][2] \in 1..12 /\ r[1][1] \in 1..DaysInMonth(r[1][2], r[1][3]))

ErrorNoticeShown == \E i \in DOMAIN screen : screen[i].el = "error"

\* C5 (as claimed): whatever the kind of load failure, load_data shows the
\* notice and returns the empty table, and no exception leaves it.
C5_EveryFailureGivesEmptyTable ==
    (LoadRan /\ (TransportFailure(load.resp) \/ NonSuccessStatus(load.resp)
                   \/ SchemaMismatch(load.resp) \/ UnparsableDate(load.resp)))
        => load.exc = "" /\ df = EmptyFrame /\ load.notice /\ ErrorNoticeShown

C5_RequestFailuresGiveEmptyTable ==
    /\ (LoadRan /\ (TransportFailure(load.resp) \/ ErrorStatus(load.resp)))
         => /\ load.exc = "" /\ df = EmptyFrame /\ df.rows = <<>>
            /\ load.notice /\ ErrorNoticeShown
    /\ (LoadRan /\ SchemaMismatch(load.resp))
         => /\ load.exc = "KeyError" /\ status = "KeyError"
            /\ ~ErrorNoticeShown /\ df = NoDf /\ cache = <<>>
    /\ (LoadRan /\ UnparsableDate(load.resp))
         => /\ load.exc = "ValueError" /\ status = "ValueError"
            /\ ~ErrorNoticeShown /\ df = NoDf /\ cache = <<>>

\* C5 (amended): a transport failure or a 4xx/5xx status makes load_data show
\* the notice and return the empty zero-row table, and nothing is raised; a
\* missing note or unit column makes it raise KeyError, and a date that does
\* not parse ValueError, to its caller, with no notice and no table; and no
\* call of load_data issues more than one GET.
C5_LoadFailures ==
    /\ []C5_RequestFailuresGiveEmptyTable
    /\ [][gets' <= gets + 1]_vars

C5_Witness == LoadRan /\ SchemaMismatch(load.resp) /\ load.exc = "KeyError"

\* load_data calls so far that ended by raising.
RaisedLoads == Cardinality({i \in DOMAIN loadLog : loadLog[i] # ""})

\* C6 (as claimed): the GET is issued at most once in the process lifetime,
\* whether the calls so far returned (a table, or the empty table after a
\* transport failure) or failed on the schema (KeyError) or on a date
\* (ValueError).
C6_AtMostOneGet ==
    (\A i \in DOMAIN loadLog : loadLog[i] \in {"", "KeyError", "ValueError"}) => gets <= 1

C6_GetsCounted ==
    /\ gets = Len(loadLog)
    /\ gets = RaisedLoads + (IF cache # <<>> THEN 1 ELSE 0)
    /\ cache # <<>> => df = cache[1].value /\ load.exc = "" /\ loadLog[Len(loadLog)] = ""

\* C6 (amended): a load_data call that returns (a table, or the empty table
\* after a transport failure or an error status) is the last to issue a GET:
\* every later call returns that same table from the cache; a call that
\* raises (schema mismatch, date-parse failure) caches nothing, and the next
\* call issues the GET again.  So the GETs number the calls that raised,
\* plus one once a call has returned.
C6_OneGetPerReturnedLoad ==
    /\ []C6_GetsCounted
    /\ [][cache # <<>> => (cache' = cache /\ gets' = gets /\ df' = cache[1].value)]_vars
    /\ [][cache = <<>> => gets' = gets + 1]_vars

C6_Witness ==
    /\ load.how = "hit" /\ loadLog = <<"KeyError", "ValueError", "">> /\ gets = 3
    /\ df = EmptyFrame

\* C7 (safety part): at most 3 POSTs; the k-th sleep lasts 2^k s (2, 4, 8) and
\* directly follows the k-th POST, which got a non-200 status; at most 14 s
\* are slept; and a finished invocation has handed the script a string (the
\* run completes, no exception leaves the function).
C7_Bounded ==
    /\ Cardinality(PostIndexes) <= 3
    /\ \A i \in SleepIndexes :
          LET k == Cardinality({j \in SleepIndexes : j <= i})
          IN  /\ trace[i].n = 2 ^ k
              /\ i = NthPost(k) + 1
              /\ FailedStatus(trace[i - 1])
    /\ \A i \in PostIndexes :
          (FailedStatus(trace[i]) /\ i < Len(trace)) => trace[i + 1].ev = "SLEEP"
    /\ SleptSeconds <= 14
    /\ Called => status \in {"running", "completed"}
    /\ HasReturned =>
          /\ status = "completed"
          /\ result \in {MSG_NO_KEY, MSG_NOT_GENERATED, MSG_FAILED, AdviceText} \cup ErrorStrings
          /\ screen[Len(screen)] = Element("markdown", result)

\* C7: every invocation of get_ai_recommendation ends by returning a string,
\* whatever the endpoint answers, within the bounds of C7_Bounded.
C7_AlwaysReturnsInBounds == []C7_Bounded /\ ((pc # "idle") ~> (pc = "idle"))

C7_Witness == HasReturned /\ SleptSeconds = 14 /\ Cardinality(SleepIndexes) = 3

C10_NoSleepAfterLastAttempt ==
    (pc = "idle" /\ trace # <<>>) => trace[Len(trace)].ev # "SLEEP"

\* C10 (amended): every sleep after the first or the second attempt is
\* followed by another POST; after the third failed attempt the invocation
\* sleeps 8 more seconds and then returns the terminal failure string with
\* no further POST.
C10_SleepThenPostOrGiveUp ==
    \A i \in SleepIndexes :
        IF Cardinality({j \in PostIndexes : j < i}) < 3
        THEN /\ i < Len(trace) => trace[i + 1].ev = "POST"
             /\ i = Len(trace) => pc = "post"
        ELSE /\ i = Len(trace) /\ trace[i].n = 8
             /\ pc = "idle" /\ result = MSG_FAILED

C10_Witness ==
    /\ pc = "idle" /\ trace # <<>> /\ trace[Len(trace)] = [ev |-> "SLEEP", n |-> 8]
    /\ Cardinality(PostIndexes) = 3 /\ result = MSG_FAILED

(***************************************************************************)
(* Properties of the pollutant frequencies, stated on the cells themselves:*)
(* a piece of a cell starts after a cut (the cell's start or a comma) and  *)
(* ends before the next one (a comma or the cell's end), and its name is   *)
(* what lies between its first and its last character that is not white    *)
(* space.                                                                  *)
(***************************************************************************)
PieceStarts(s) == {0} \cup {i \in 1..Len(s) : s[i] = ","}

PieceEnd(s, a) ==
    CHOOSE b \in (a + 1)..(Len(s) + 1) :
        /\ b = Len(s) + 1 \/ s[b] = ","
        /\ \A c \in (a + 1)..(b - 1) : s[c] # ","

NameAt(s, a) ==
    LET inked == {i \in (a + 1)..(PieceEnd(s, a) - 1) : s[i] \notin {" ", "\t"}}
    IN  IF inked = {} THEN <<>>
        ELSE SubSeq(s, CHOOSE i \in inked : \A j \in inked : i <= j,
                       CHOOSE i \in inked : \A j \in inked : j <= i)

\* The rows the last run selected (its page's column equal to its selection).
SelectedRows ==
    {i \in DOMAIN df.rows :
        df.rows[i][IF page = "Statewise AQI" THEN "state" ELSE "area"] = selection}

\* The selected rows whose cell is not null.
ListedRows == {i \in SelectedRows : df.rows[i]["prominent_pollutants"] # NaN}

\* Every piece of every listed row: <<row, start>>.
PiecesListed ==
    UNION {{<<i, a>> : a \in PieceStarts(df.rows[i]["prominent_pollutants"])} : i \in ListedRows}

NameOf(piece) == NameAt(df.rows[piece[1]]["prominent_pollutants"], piece[2])

NamesListed == {NameOf(piece) : piece \in PiecesListed}

\* Occurrences of the name p over all listed rows.
Occurrences(p) == Cardinality({piece \in PiecesListed : NameOf(piece) = p})

DrillDownDone ==
    pc = "idle" /\ status = "completed" /\ page \in {"Statewise AQI", "Areawise AQI"}

\* C8: after a run of the Statewise or Areawise page, the frequency table
\* lists exactly the names occurring in the selected rows that are not null,
\* each once, with the number of its occurrences, in an order in which no
\* count rises; and the prompt names the first 5 of them (all, if fewer).
C8_PollutantFrequency ==
    DrillDownDone =>
        /\ {pollutants[k].Pollutant : k \in DOMAIN pollutants} = NamesListed
        /\ Len(pollutants) = Cardinality(NamesListed)
        /\ \A k \in DOMAIN pollutants :
              pollutants[k].Count = Occurrences(pollutants[k].Pollutant)
        /\ \A k \in 1..(Len(pollutants) - 1) : pollutants[k].Count >= pollutants[k + 1].Count
        /\ Len(prompt.top_pollutants_list) <= 5
        /\ Len(prompt.top_pollutants_list) = (IF Len(pollutants) < 5 THEN Len(pollutants) ELSE 5)
        /\ \A k \in DOMAIN prompt.top_pollutants_list :
              prompt.top_pollutants_list[k] = pollutants[k].Pollutant

\* More than 5 names, one of them in two rows, and a null row among the selected.
C8_Witness ==
    /\ DrillDownDone /\ Len(pollutants) = 6 /\ Len(prompt.top_pollutants_list) = 5
    /\ pollutants[1] = [Pollutant |-> CO, Count |-> 3]
    /\ \E i \in SelectedRows : df.rows[i]["prominent_pollutants"] = NaN

\* The rows "PM2.5, PM10", "PM2.5" and null give PM2.5: 2, PM10: 1.
C8_Example ==
    /\ DrillDownDone /\ Cardinality(SelectedRows) = 3
    /\ {df.rows[i]["prominent_pollutants"] : i \in SelectedRows}
         = {PM25 \o <<",", " ">> \o PM10, PM25, NaN}
    /\ pollutants = <<[Pollutant |-> PM25, Count |-> 2], [Pollutant |-> PM10, Count |-> 1]>>

====
